---- MODULE Spec2Model ----
(***************************************************************************)
(* Engine / EngineManager of jamovi/server/enginemanager.py as a state     *)
(* machine.  One owning context (the asyncio loop) runs send, stop,        *)
(* restart, _receive, _on_closing and restart_engines; each Engine has a   *)
(* receiver thread (_run) that hands messages to the loop through          *)
(* call_soon_threadsafe.                                                   *)
(* The column ids of jamovi/server/instancemodel.py (InstanceModel) are a  *)
(* second, independent state machine over its own variables.               *)
(***************************************************************************)
EXTENDS Integers, Sequences, FiniteSets, TLC

n_slots == 3

\* Bounds of the model.
MaxRevision == 1
MaxMessageId == 2
MaxLoop == 1
MaxRestartAll == 1
MaxListeners == 2
MaxColumns == 6
MaxColumnId == 6

\* InstanceModel.N_VIRTUAL_COLS
N_VIRTUAL_COLS == 5

Engines == 1..n_slots
Analyses == {"a1", "a2"}
None == "None"

\* Engine.Status
EngineStatus == {"WAITING", "INITING", "RUNNING", "OPPING"}

\* Analysis.Status, as far as the Engine reads and writes it.
AnalysisStatus == {"NONE", "RUNNING", "COMPLETE", "ERROR"}

\* jcoms.Status of a ComsMessage.
MsgStatus == {"COMPLETE", "IN_PROGRESS", "ERROR"}

Causes == {"disk full"}
ExitCodes == {0, 1}

\* The decoded ComsMessages a worker sends: a final one, a partial one and a
\* failed one for every revision, each with its status, its error.cause, and
\* the revision and status of the AnalysisResponse in its payload.
Messages ==
    UNION {{[status |-> "COMPLETE", revision |-> r, rstatus |-> "COMPLETE", cause |-> ""],
            [status |-> "IN_PROGRESS", revision |-> r, rstatus |-> "RUNNING", cause |-> ""],
            [status |-> "ERROR", revision |-> r, rstatus |-> "ERROR", cause |-> c]} :
           r \in 0..MaxRevision, c \in Causes}

NoMessage == [status |-> "NONE", revision |-> 0, rstatus |-> "NONE", cause |-> ""]

\* results = jcoms.AnalysisResponse(); results.ParseFromString(message.payload)
Results(m) == [revision |-> m.revision, status |-> m.rstatus]
NoResults == [revision |-> 0, status |-> "NONE"]

\* The operation of an Analysis: the waiting flag and the completion handle.
NoOp == [exists |-> FALSE, waiting |-> FALSE, outcome |-> "none",
         cause |-> "", result |-> NoMessage, resolutions |-> 0]
NewOp == [exists |-> TRUE, waiting |-> TRUE, outcome |-> "pending",
          cause |-> "", result |-> NoMessage, resolutions |-> 0]

VARIABLES
    status,        \* Engine.status
    analysis,      \* Engine.analysis (None or an item)
    process,       \* Engine._process: "none", "alive", "exited"
    returncode,    \* Engine._process.returncode (-1 while None)
    socket,        \* Engine._socket: "none", "open", "closed"
    thread,        \* position of the receiver thread in _run
    message_id,    \* Engine._message_id
    restarting,    \* Engine._restarting
    stopping,      \* Engine._stopping
    stopped,       \* Engine._stopped
    started,       \* EngineManager.start() has been called
    restart_task,  \* EngineManager._restart_task: its unfinished-task count
    re_pc,         \* position of the restart_engines() coroutine
    re_idx,        \* the engine restart_engines() is at
    re_calls,      \* the number of restart_engines() calls made
    listeners,     \* EngineManager._listeners: the kinds registered, in order
    ioloop,        \* callbacks scheduled with call_soon_threadsafe, in order
    items,         \* the Analysis objects
    units,         \* per engine: units registered by restart_engines (put_nowait)
    reports,       \* per engine: _notify_engine_restarted calls
    respawned,     \* per engine: a process was started since the last restart_engines call
    columns,       \* InstanceModel._columns: the ids of the columns, in order
    column_count,  \* InstanceModel.column_count: the columns of the dataset
    next_id,       \* InstanceModel._next_id
    last           \* the step just taken and what it emitted

engineVars == <<status, analysis, process, returncode, socket, thread,
                message_id, restarting, stopping, stopped>>
poolVars == <<started, restart_task, re_pc, re_idx, re_calls, listeners>>
histVars == <<units, reports, respawned>>
modelVars == <<columns, column_count, next_id>>
vars == <<engineVars, poolVars, ioloop, items, histVars, modelVars, last>>

\* What a step reports: the operation, its engine, the item and the run
\* flag of a send, the message of a receive, the engine's status before it,
\* and what it emitted
\* (slot-available notifications, engine events, envelopes sent to the
\* worker) and the listeners it called, in the order of the calls.
Step(op, e, m) ==
    [op |-> op, e |-> e, a |-> None, run |-> FALSE, msg |-> m,
     was |-> IF e \in Engines THEN status[e] ELSE "NONE",
     slot |-> 0, events |-> <<>>, tx |-> <<>>, calls |-> <<>>]

\* Engine.__init__ and EngineManager.__init__
Init ==
    /\ status = [e \in Engines |-> "WAITING"]
    /\ analysis = [e \in Engines |-> None]
    /\ process = [e \in Engines |-> "none"]
    /\ returncode = [e \in Engines |-> -1]
    /\ socket = [e \in Engines |-> "none"]
    /\ thread = [e \in Engines |-> "none"]
    /\ message_id = [e \in Engines |-> 0]
    /\ restarting = [e \in Engines |-> FALSE]
    /\ stopping = [e \in Engines |-> FALSE]
    /\ stopped = [e \in Engines |-> FALSE]
    /\ started = FALSE
    /\ restart_task = 0
    /\ re_pc = "idle"
    /\ re_idx = 0
    /\ re_calls = 0
    /\ listeners = <<>>
    /\ ioloop = <<>>
    /\ items = [a \in Analyses |->
                  [status |-> "NONE", revision |-> 0, op |-> NoOp, results |-> NoResults]]
    /\ units = [e \in Engines |-> 0]
    /\ reports = [e \in Engines |-> 0]
    /\ respawned = [e \in Engines |-> FALSE]
    /\ columns = <<>>
    /\ column_count = 0
    /\ next_id = 1
    /\ last = [op |-> "init", e |-> 0, a |-> None, run |-> FALSE, msg |-> NoMessage,
               was |-> "NONE",
               slot |-> 0, events |-> <<>>, tx |-> <<>>, calls |-> <<>>]

\* Engine.is_waiting
is_waiting(e) == status[e] = "WAITING"

\* Analysis.needs_op
needs_op(a) == items[a].op.exists /\ items[a].op.waiting

\* The owning context is free to run a callback or take a call: it is not
\* inside the synchronous loop of restart_engines().
MainFree == re_pc \in {"idle", "join"}

\* EngineManager.add_slot_available_listener
AddSlotAvailableListener ==
    /\ MainFree
    /\ Len(listeners) < MaxListeners
    /\ listeners' = Append(listeners, "slot-available")
    /\ last' = Step("add_slot_available_listener", 0, NoMessage)
    /\ UNCHANGED <<modelVars, engineVars, started, restart_task, re_pc, re_idx, re_calls,
                   ioloop, items, histVars>>

\* EngineManager.add_engine_listener
AddEngineListener ==
    /\ MainFree
    /\ Len(listeners) < MaxListeners
    /\ listeners' = Append(listeners, "engine-event")
    /\ last' = Step("add_engine_listener", 0, NoMessage)
    /\ UNCHANGED <<modelVars, engineVars, started, restart_task, re_pc, re_idx, re_calls,
                   ioloop, items, histVars>>

\* Variant of Notified: a notification calls every listener.
Notified_All(kind) == [i \in 1..Len(listeners) |-> i]

\* EngineManager._notify_slot_available and _notify_engine_event: the loop
\* over _listeners calls those registered for the kind.  A listener is known
\* by its position in _listeners.
Notified(kind) ==
    LET f[i \in 0..Len(listeners)] ==
            IF i = 0 THEN <<>>
            ELSE IF listeners[i] = kind THEN Append(f[i - 1], i) ELSE f[i - 1]
    IN  f[Len(listeners)]

\* The listeners called for a sequence of engine events, one notification
\* for each event.
NotifiedEvents(events) ==
    LET f[i \in 0..Len(events)] ==
            IF i = 0 THEN <<>> ELSE f[i - 1] \o Notified("engine-event")
    IN  f[Len(events)]

\* Variant of SpawnError: the event without the cause of the failure.
SpawnError_NoCause ==
    [type |-> "error", message |-> "Engine process could not be started",
     cause |-> ""]

\* The engine event of Engine.start when the process cannot be spawned.
SpawnError ==
    [type |-> "error", message |-> "Engine process could not be started",
     cause |-> "spawn failed"]

\* Variant of ExitError: the cause without the exit code.
ExitError_NoCode(code) ==
    [type |-> "error", message |-> "Engine process terminated",
     cause |-> "Exit code: "]

\* The engine event of Engine._on_closing: the cause carries the exit code.
ExitError(code) ==
    [type |-> "error", message |-> "Engine process terminated",
     cause |-> "Exit code: " \o ToString(code)]

\* Variant of Transmit: the envelope carries the counter as it was before
\* the increment.
Transmit_BeforeIncrement(e, id, kind, a) ==
    IF socket[e] = "open"
    THEN <<[e |-> e, id |-> id - 1, kind |-> kind, a |-> a]>>
    ELSE <<>>

\* socket.send(message.SerializeToString()): the envelope reaches the worker
\* only through an open socket; otherwise the call raises, after the
\* assignments that precede it.
Transmit(e, id, kind, a) ==
    IF socket[e] = "open"
    THEN <<[e |-> e, id |-> id, kind |-> kind, a |-> a]>>
    ELSE <<>>

\* EngineManager.start: Engine.start() for every engine, in slot order.  The
\* engines of F are those whose process cannot be spawned: start() catches
\* the exception and notifies an engine event.
StartEvents(F) ==
    LET f[i \in 0..n_slots] ==
            IF i = 0 THEN <<>>
            ELSE IF i \in F THEN Append(f[i - 1], SpawnError) ELSE f[i - 1]
    IN  f[n_slots]

ManagerStart(F) ==
    /\ MainFree
    /\ ~started
    /\ started' = TRUE
    /\ process' = [e \in Engines |-> IF e \in F THEN process[e] ELSE "alive"]
    /\ socket' = [e \in Engines |-> IF e \in F THEN socket[e] ELSE "open"]
    /\ thread' = [e \in Engines |-> IF e \in F THEN thread[e] ELSE "check"]
    /\ last' = [Step("start", 0, NoMessage) EXCEPT
                  !.events = StartEvents(F),
                  !.calls = NotifiedEvents(StartEvents(F))]
    /\ UNCHANGED <<modelVars, listeners, status, analysis, returncode, message_id,
                   restarting, stopping,
                   stopped, restart_task, re_pc, re_idx, re_calls, ioloop, items,
                   histVars>>

\* Variant of StopFields: stop() without the test of _stopped.
StopFields_Unguarded(e) ==
    /\ stopping' = [stopping EXCEPT ![e] = TRUE]
    /\ message_id' = [message_id EXCEPT ![e] = @ + 1]

\* Engine.stop, as its effect on the fields of engine e.
StopFields(e) ==
    /\ stopping' = IF stopped[e] THEN stopping ELSE [stopping EXCEPT ![e] = TRUE]
    /\ message_id' = IF stopped[e] THEN message_id
                     ELSE [message_id EXCEPT ![e] = @ + 1]
StopTx(e) ==
    IF stopped[e] THEN <<>>
    ELSE Transmit(e, message_id[e] + 1, "restartEngines", None)
CanStop(e) == stopped[e] \/ message_id[e] < MaxMessageId

\* Engine.stop
Stop(e) ==
    /\ MainFree
    /\ CanStop(e)
    /\ StopFields(e)
    /\ last' = [Step("stop", e, NoMessage) EXCEPT !.tx = StopTx(e)]
    /\ UNCHANGED <<modelVars, status, analysis, process, returncode, socket, thread,
                   restarting, stopped, poolVars, ioloop, items, histVars>>

\* Engine.restart
Restart(e) ==
    /\ MainFree
    /\ CanStop(e)
    /\ restarting' = [restarting EXCEPT ![e] = TRUE]
    /\ StopFields(e)
    /\ last' = [Step("restart", e, NoMessage) EXCEPT !.tx = StopTx(e)]
    /\ UNCHANGED <<modelVars, status, analysis, process, returncode, socket, thread,
                   stopped, poolVars, ioloop, items, histVars>>

\* Variant of SendStatus: an init leaves the engine WAITING.
SendStatus_InitKeepsWaiting(a, run) ==
    IF items[a].status = "COMPLETE" /\ needs_op(a) THEN "OPPING"
    ELSE IF run THEN "RUNNING" ELSE "WAITING"

\* Variant of SendStatus: a send that only runs or inits.
SendStatus_NoOp(a, run) == IF run THEN "RUNNING" ELSE "INITING"

\* Engine.send: the branch on the item (an operation to perform, or a run or
\* an init), as the engine status, the request and the item it leaves.
SendStatus(a, run) ==
    IF items[a].status = "COMPLETE" /\ needs_op(a) THEN "OPPING"
    ELSE IF run THEN "RUNNING" ELSE "INITING"
SendPerform(a, run) ==
    IF items[a].status = "COMPLETE" /\ needs_op(a) THEN "SAVE"
    ELSE IF run THEN "RUN" ELSE "INIT"
SendItem(a) ==
    IF items[a].status = "COMPLETE" /\ needs_op(a)
    THEN [items[a] EXCEPT !.op.waiting = FALSE]
    ELSE [items[a] EXCEPT !.status = "RUNNING"]

\* Variant of Send: a send that turns down a busy engine.
Send_WhenWaiting(e, a, run) ==
    /\ MainFree
    /\ message_id[e] < MaxMessageId
    /\ IF is_waiting(e)
       THEN /\ message_id' = [message_id EXCEPT ![e] = @ + 1]
            /\ analysis' = [analysis EXCEPT ![e] = a]
            /\ items' = [items EXCEPT ![a] = SendItem(a)]
            /\ status' = [status EXCEPT ![e] = SendStatus(a, run)]
            /\ last' = [Step("send", e, NoMessage) EXCEPT
                          !.a = a, !.run = run,
                          !.tx = Transmit(e, message_id[e] + 1, SendPerform(a, run), a)]
       ELSE /\ last' = [Step("send", e, NoMessage) EXCEPT !.a = a, !.run = run]
            /\ UNCHANGED <<message_id, analysis, items, status>>
    /\ UNCHANGED <<modelVars, process, returncode, socket, thread, restarting, stopping,
                   stopped, poolVars, ioloop, histVars>>

\* Engine.send
Send(e, a, run) ==
    /\ MainFree
    /\ message_id[e] < MaxMessageId
    /\ message_id' = [message_id EXCEPT ![e] = @ + 1]
    /\ analysis' = [analysis EXCEPT ![e] = a]
    /\ items' = [items EXCEPT ![a] = SendItem(a)]
    /\ status' = [status EXCEPT ![e] = SendStatus(a, run)]
    /\ last' = [Step("send", e, NoMessage) EXCEPT
                  !.a = a, !.run = run,
                  !.tx = Transmit(e, message_id[e] + 1, SendPerform(a, run), a)]
    /\ UNCHANGED <<modelVars, process, returncode, socket, thread, restarting, stopping,
                   stopped, poolVars, ioloop, histVars>>

\* Variant of RevisionMatches: the revision is not compared.
RevisionMatches_Always(e, m) == TRUE

\* Engine._receive: results.revision == self.analysis.revision
RevisionMatches(e, m) == Results(m).revision = items[analysis[e]].revision

\* Variant of IsFinal: only a COMPLETE message is final.
IsFinal_Complete(m) == m.status = "COMPLETE"

\* Engine._receive: message.status != jcoms.Status.Value('IN_PROGRESS')
IsFinal(m) == m.status # "IN_PROGRESS"

\* Variant of Resolve: the operation succeeds whatever the message status.
Resolve_Result(op, m) ==
    [op EXCEPT !.outcome = "result", !.result = m, !.resolutions = @ + 1]

\* Engine._receive: op.set_exception(RuntimeError(message.error.cause)) on an
\* ERROR message, op.set_result(message) otherwise.
Resolve(op, m) ==
    IF m.status = "ERROR"
    THEN [op EXCEPT !.outcome = "exception", !.cause = m.cause, !.resolutions = @ + 1]
    ELSE [op EXCEPT !.outcome = "result", !.result = m, !.resolutions = @ + 1]

\* Variant of Receive: a response to a WAITING engine fires slot-available.
Receive_NotifyWhenWaiting(e, m) ==
    /\ MainFree
    /\ ioloop # <<>>
    /\ Head(ioloop) = [kind |-> "receive", e |-> e, msg |-> m]
    /\ ioloop' = Tail(ioloop)
    /\ IF status[e] = "WAITING"
       THEN /\ last' = [Step("receive", e, m) EXCEPT
                          !.slot = 1, !.calls = Notified("slot-available")]
            /\ UNCHANGED <<status, analysis, items>>
       ELSE IF status[e] = "OPPING"
       THEN /\ status' = [status EXCEPT ![e] = "WAITING"]
            /\ items' = [items EXCEPT ![analysis[e]].op = Resolve(@, m)]
            /\ analysis' = [analysis EXCEPT ![e] = None]
            /\ last' = [Step("receive", e, m) EXCEPT
                          !.slot = 1, !.calls = Notified("slot-available")]
       ELSE IF RevisionMatches(e, m)
       THEN IF IsFinal(m)
            THEN /\ items' = [items EXCEPT ![analysis[e]].status = Results(m).status,
                                           ![analysis[e]].results = Results(m)]
                 /\ status' = [status EXCEPT ![e] = "WAITING"]
                 /\ analysis' = [analysis EXCEPT ![e] = None]
                 /\ last' = [Step("receive", e, m) EXCEPT
                          !.slot = 1, !.calls = Notified("slot-available")]
            ELSE /\ items' = [items EXCEPT ![analysis[e]].results = Results(m)]
                 /\ last' = Step("receive", e, m)
                 /\ UNCHANGED <<status, analysis>>
       ELSE /\ last' = Step("receive", e, m)
            /\ UNCHANGED <<status, analysis, items>>
    /\ UNCHANGED <<modelVars, process, returncode, socket, thread, message_id, restarting,
                   stopping, stopped, poolVars, histVars>>

\* Engine._receive, run by the loop for the callback at the head of ioloop.
Receive(e, m) ==
    /\ MainFree
    /\ ioloop # <<>>
    /\ Head(ioloop) = [kind |-> "receive", e |-> e, msg |-> m]
    /\ ioloop' = Tail(ioloop)
    /\ IF status[e] = "WAITING"
       THEN /\ last' = Step("receive", e, m)
            /\ UNCHANGED <<status, analysis, items>>
       ELSE IF status[e] = "OPPING"
       THEN /\ status' = [status EXCEPT ![e] = "WAITING"]
            /\ items' = [items EXCEPT ![analysis[e]].op = Resolve(@, m)]
            /\ analysis' = [analysis EXCEPT ![e] = None]
            /\ last' = [Step("receive", e, m) EXCEPT
                          !.slot = 1, !.calls = Notified("slot-available")]
       ELSE IF RevisionMatches(e, m)
       THEN IF IsFinal(m)
            THEN /\ items' = [items EXCEPT ![analysis[e]].status = Results(m).status,
                                           ![analysis[e]].results = Results(m)]
                 /\ status' = [status EXCEPT ![e] = "WAITING"]
                 /\ analysis' = [analysis EXCEPT ![e] = None]
                 /\ last' = [Step("receive", e, m) EXCEPT
                          !.slot = 1, !.calls = Notified("slot-available")]
            ELSE /\ items' = [items EXCEPT ![analysis[e]].results = Results(m)]
                 /\ last' = Step("receive", e, m)
                 /\ UNCHANGED <<status, analysis>>
       ELSE /\ last' = Step("receive", e, m)
            /\ UNCHANGED <<status, analysis, items>>
    /\ UNCHANGED <<modelVars, process, returncode, socket, thread, message_id, restarting,
                   stopping, stopped, poolVars, histVars>>

\* Variant of OnClosing: the death of the process fails the operation the
\* engine was performing.
OnClosing_FailsOperation(e, ok) ==
    /\ MainFree
    /\ ioloop # <<>>
    /\ Head(ioloop) = [kind |-> "closing", e |-> e, msg |-> NoMessage]
    /\ ioloop' = Tail(ioloop)
    /\ IF restarting[e]
       THEN /\ stopping' = [stopping EXCEPT ![e] = FALSE]
            /\ IF ok
               THEN /\ process' = [process EXCEPT ![e] = "alive"]
                    /\ returncode' = [returncode EXCEPT ![e] = -1]
                    /\ socket' = [socket EXCEPT ![e] = "open"]
                    /\ thread' = [thread EXCEPT ![e] = "check"]
                    /\ respawned' = [respawned EXCEPT ![e] = TRUE]
                    /\ last' = Step("closing", e, NoMessage)
               ELSE /\ socket' = [socket EXCEPT ![e] = "closed"]
                    /\ last' = [Step("closing", e, NoMessage) EXCEPT
                                  !.events = <<SpawnError>>,
                                  !.calls = NotifiedEvents(<<SpawnError>>)]
                    /\ UNCHANGED <<process, returncode, thread, respawned>>
            /\ UNCHANGED <<stopped, items>>
       ELSE /\ ok
            /\ items' = IF status[e] = "OPPING"
                        THEN [items EXCEPT ![analysis[e]].op =
                                [@ EXCEPT !.outcome = "exception",
                                          !.cause = "Engine process terminated",
                                          !.resolutions = @ + 1]]
                        ELSE items
            /\ socket' = [socket EXCEPT ![e] = "closed"]
            /\ stopped' = [stopped EXCEPT ![e] = TRUE]
            /\ last' = [Step("closing", e, NoMessage) EXCEPT
                          !.events = <<ExitError(returncode[e])>>,
                          !.calls = NotifiedEvents(<<ExitError(returncode[e])>>)]
            /\ UNCHANGED <<stopping, process, returncode, thread, respawned>>
    /\ UNCHANGED <<modelVars, status, analysis, message_id, restarting, poolVars,
                   units, reports>>

\* Engine._on_closing, run by the loop for the callback at the head of
\* ioloop.  ok: whether the Popen of the start() it may call succeeds.
OnClosing(e, ok) ==
    /\ MainFree
    /\ ioloop # <<>>
    /\ Head(ioloop) = [kind |-> "closing", e |-> e, msg |-> NoMessage]
    /\ ioloop' = Tail(ioloop)
    /\ IF restarting[e]
       THEN /\ stopping' = [stopping EXCEPT ![e] = FALSE]
            /\ IF ok
               THEN /\ process' = [process EXCEPT ![e] = "alive"]
                    /\ returncode' = [returncode EXCEPT ![e] = -1]
                    /\ socket' = [socket EXCEPT ![e] = "open"]
                    /\ thread' = [thread EXCEPT ![e] = "check"]
                    /\ respawned' = [respawned EXCEPT ![e] = TRUE]
                    /\ last' = Step("closing", e, NoMessage)
               ELSE /\ socket' = [socket EXCEPT ![e] = "closed"]
                    /\ last' = [Step("closing", e, NoMessage) EXCEPT
                                  !.events = <<SpawnError>>,
                                  !.calls = NotifiedEvents(<<SpawnError>>)]
                    /\ UNCHANGED <<process, returncode, thread, respawned>>
            /\ UNCHANGED stopped
       ELSE /\ ok
            /\ socket' = [socket EXCEPT ![e] = "closed"]
            /\ stopped' = [stopped EXCEPT ![e] = TRUE]
            /\ last' = [Step("closing", e, NoMessage) EXCEPT
                          !.events = <<ExitError(returncode[e])>>,
                          !.calls = NotifiedEvents(<<ExitError(returncode[e])>>)]
            /\ UNCHANGED <<stopping, process, returncode, thread, respawned>>
    /\ UNCHANGED <<modelVars, status, analysis, message_id, restarting, poolVars, items,
                   units, reports>>

\* Engine.stop raises at its last statement, after its assignments, when
\* the engine has no socket (None has no send) or a closed one.
StopRaises(e) == ~stopped[e] /\ socket[e] # "open"

\* EngineManager.stop reaches the stop() of engine e: no stop() before it
\* raised.
StopReached(e) == \A j \in Engines : j < e => ~StopRaises(j)

\* EngineManager.stop: Engine.stop() for every engine, in slot order, up to
\* the first stop() that raises.
ManagerStop ==
    /\ MainFree
    /\ \A e \in Engines : CanStop(e)
    /\ stopping' = [e \in Engines |->
                      IF StopReached(e) /\ ~stopped[e] THEN TRUE ELSE stopping[e]]
    /\ message_id' = [e \in Engines |->
                        IF StopReached(e) /\ ~stopped[e]
                        THEN message_id[e] + 1 ELSE message_id[e]]
    /\ last' = [Step("manager_stop", 0, NoMessage) EXCEPT
                  !.tx = LET f[i \in 0..n_slots] ==
                                 IF i = 0 THEN <<>>
                                 ELSE IF StopReached(i) THEN f[i - 1] \o StopTx(i)
                                 ELSE f[i - 1]
                         IN  f[n_slots]]
    /\ UNCHANGED <<modelVars, status, analysis, process, returncode, socket, thread,
                   restarting, stopped, poolVars, ioloop, items, histVars>>

\* The worker process of engine e exits with the given code (after the
\* restart signal, or on its own).
ProcessExit(e, code) ==
    /\ process[e] = "alive"
    /\ process' = [process EXCEPT ![e] = "exited"]
    /\ returncode' = [returncode EXCEPT ![e] = code]
    /\ last' = Step("exit", e, NoMessage)
    /\ UNCHANGED <<modelVars, status, analysis, socket, thread, message_id, restarting,
                   stopping, stopped, poolVars, ioloop, items, histVars>>

\* Engine._run, first statement: the receiver thread reads _restarting.
RunCheck(e) ==
    /\ thread[e] = "check"
    /\ thread' = [thread EXCEPT ![e] = IF restarting[e] THEN "notify" ELSE "loop"]
    /\ last' = Step("run_check", e, NoMessage)
    /\ UNCHANGED <<modelVars, status, analysis, process, returncode, socket, message_id,
                   restarting, stopping, stopped, poolVars, ioloop, items, histVars>>

\* Engine._run: self._parent._notify_engine_restarted(self), that is
\* Queue.task_done(), which raises ValueError in the receiver thread when no
\* task is unfinished.
RunNotify(e) ==
    /\ thread[e] = "notify"
    /\ reports' = [reports EXCEPT ![e] = @ + 1]
    /\ IF restart_task > 0
       THEN /\ restart_task' = restart_task - 1
            /\ thread' = [thread EXCEPT ![e] = "clear"]
       ELSE /\ thread' = [thread EXCEPT ![e] = "crashed"]
            /\ UNCHANGED restart_task
    /\ last' = Step("run_notify", e, NoMessage)
    /\ UNCHANGED <<modelVars, listeners, status, analysis, process, returncode, socket,
                   message_id,
                   restarting, stopping, stopped, started, re_pc, re_idx, re_calls,
                   ioloop, items, units, respawned>>

\* Engine._run: self._restarting = False
RunClear(e) ==
    /\ thread[e] = "clear"
    /\ restarting' = [restarting EXCEPT ![e] = FALSE]
    /\ thread' = [thread EXCEPT ![e] = "loop"]
    /\ last' = Step("run_clear", e, NoMessage)
    /\ UNCHANGED <<modelVars, status, analysis, process, returncode, socket, message_id,
                   stopping, stopped, poolVars, ioloop, items, histVars>>

\* Variant of Handoff: the closing notification is scheduled ahead of the
\* message of the same iteration.
Handoff_ClosingFirst(e, m) ==
    IF process[e] = "exited"
    THEN <<[kind |-> "closing", e |-> e, msg |-> NoMessage],
           [kind |-> "receive", e |-> e, msg |-> m]>>
    ELSE <<[kind |-> "receive", e |-> e, msg |-> m]>>

\* The callbacks one iteration of the loop of _run schedules after a message:
\* _receive, and _on_closing when the poll finds the process gone.
Handoff(e, m) ==
    IF process[e] = "exited"
    THEN <<[kind |-> "receive", e |-> e, msg |-> m],
           [kind |-> "closing", e |-> e, msg |-> NoMessage]>>
    ELSE <<[kind |-> "receive", e |-> e, msg |-> m]>>

\* Engine._run, one iteration in which recv() returns bytes that parse as
\* the ComsMessage m.  The loop has room for the message; the closing
\* notification of the same iteration goes with it.
RunRecv(e, m) ==
    /\ thread[e] = "loop"
    /\ socket[e] = "open"
    /\ Len(ioloop) < MaxLoop
    /\ ioloop' = ioloop \o Handoff(e, m)
    /\ thread' = [thread EXCEPT ![e] = IF process[e] = "exited" THEN "done" ELSE "loop"]
    /\ last' = Step("recv", e, NoMessage)
    /\ UNCHANGED <<modelVars, status, analysis, process, returncode, socket, message_id,
                   restarting, stopping, stopped, poolVars, items, histVars>>

\* Engine._run, one iteration in which recv() returns bytes that do not
\* parse: ParseFromString raises DecodeError, which the loop does not catch.
RunRecvMalformed(e) ==
    /\ thread[e] = "loop"
    /\ socket[e] = "open"
    /\ thread' = [thread EXCEPT ![e] = "crashed"]
    /\ last' = Step("recv_malformed", e, NoMessage)
    /\ UNCHANGED <<modelVars, status, analysis, process, returncode, socket, message_id,
                   restarting, stopping, stopped, poolVars, ioloop, items, histVars>>

\* Engine._run, one iteration in which recv() raises a NanoMsgAPIError other
\* than ETIMEDOUT and EAGAIN: the loop re-raises it.
RunRecvError(e) ==
    /\ thread[e] = "loop"
    /\ socket[e] = "open"
    /\ thread' = [thread EXCEPT ![e] = "crashed"]
    /\ last' = Step("recv_error", e, NoMessage)
    /\ UNCHANGED <<modelVars, status, analysis, process, returncode, socket, message_id,
                   restarting, stopping, stopped, poolVars, ioloop, items, histVars>>

\* Engine._run, one iteration in which recv() times out and the poll finds
\* the process gone: break, then call_soon_threadsafe(self._on_closing).
RunDetectExit(e) ==
    /\ thread[e] = "loop"
    /\ process[e] = "exited"
    /\ Len(ioloop) < MaxLoop
    /\ ioloop' = Append(ioloop, [kind |-> "closing", e |-> e, msg |-> NoMessage])
    /\ thread' = [thread EXCEPT ![e] = "done"]
    /\ last' = Step("detect_exit", e, NoMessage)
    /\ UNCHANGED <<modelVars, status, analysis, process, returncode, socket, message_id,
                   restarting, stopping, stopped, poolVars, items, histVars>>

\* EngineManager.restart_engines is called.
RestartEnginesCall ==
    /\ re_pc = "idle"
    /\ re_calls < MaxRestartAll
    /\ \A e \in Engines : CanStop(e)
    /\ re_calls' = re_calls + 1
    /\ re_pc' = "restart"
    /\ re_idx' = 1
    /\ respawned' = [e \in Engines |-> FALSE]
    /\ last' = Step("restart_engines", 0, NoMessage)
    /\ UNCHANGED <<modelVars, listeners, engineVars, started, restart_task, ioloop,
                   items, units, reports>>

\* restart_engines: engine.restart(); when its stop() raises, the exception
\* leaves the coroutine.
RestartEnginesRestart ==
    /\ re_pc = "restart"
    /\ restarting' = [restarting EXCEPT ![re_idx] = TRUE]
    /\ StopFields(re_idx)
    /\ IF StopRaises(re_idx)
       THEN re_pc' = "idle" /\ re_idx' = 0
       ELSE re_pc' = "put" /\ UNCHANGED re_idx
    /\ last' = [Step("restart", re_idx, NoMessage) EXCEPT !.tx = StopTx(re_idx)]
    /\ UNCHANGED <<modelVars, listeners, status, analysis, process, returncode, socket,
                   thread, stopped,
                   started, restart_task, re_calls, ioloop, items, histVars>>

\* restart_engines: self._restart_task.put_nowait(engine)
RestartEnginesPut ==
    /\ re_pc = "put"
    /\ restart_task' = restart_task + 1
    /\ units' = [units EXCEPT ![re_idx] = @ + 1]
    /\ IF re_idx < n_slots
       THEN re_pc' = "restart" /\ re_idx' = re_idx + 1
       ELSE re_pc' = "join" /\ re_idx' = 0
    /\ last' = Step("put", re_idx, NoMessage)
    /\ UNCHANGED <<modelVars, listeners, engineVars, started, re_calls, ioloop, items,
                   reports, respawned>>

\* restart_engines: await self._restart_task.join() returns.
RestartEnginesReturn ==
    /\ re_pc = "join"
    /\ restart_task = 0
    /\ re_pc' = "idle"
    /\ last' = Step("restart_engines_return", 0, NoMessage)
    /\ UNCHANGED <<modelVars, listeners, engineVars, started, restart_task, re_idx,
                   re_calls, ioloop,
                   items, histVars>>

\* The owner of an Analysis changes its options before the engine has
\* replied: the revision goes up.
SetOptions(a) ==
    /\ MainFree
    /\ \E e \in Engines : analysis[e] = a
    /\ items[a].revision < MaxRevision
    /\ items' = [items EXCEPT ![a].revision = @ + 1]
    /\ last' = Step("set_options", 0, NoMessage)
    /\ UNCHANGED <<modelVars, engineVars, poolVars, ioloop, histVars>>

\* The owner of a complete Analysis asks for an operation (a save) on it.
RequestOp(a) ==
    /\ MainFree
    /\ items[a].status = "COMPLETE"
    /\ ~items[a].op.exists
    /\ items' = [items EXCEPT ![a].op = NewOp]
    /\ last' = Step("request_op", 0, NoMessage)
    /\ UNCHANGED <<modelVars, engineVars, poolVars, ioloop, histVars>>

\* InstanceModel._add_virtual_columns, as the columns and the counter it
\* leaves: virtual columns are appended, each with the counter as its id,
\* until there are N_VIRTUAL_COLS of them.
VirtualMissing(cols, cnt) ==
    IF Len(cols) - cnt >= N_VIRTUAL_COLS THEN 0 ELSE N_VIRTUAL_COLS - (Len(cols) - cnt)
WithVirtualColumns(cols, cnt, nid) ==
    cols \o [j \in 1..VirtualMissing(cols, cnt) |-> nid + j - 1]

\* The greatest id among the first cnt columns, 0 when there is none.
MaxIdOf(cols, cnt) ==
    IF cnt = 0 THEN 0
    ELSE CHOOSE m \in {cols[i] : i \in 1..cnt} : \A i \in 1..cnt : cols[i] <= m

\* The steps of the InstanceModel leave the engines alone.
ModelStep(op) ==
    /\ last' = Step(op, 0, NoMessage)
    /\ UNCHANGED <<engineVars, poolVars, ioloop, items, histVars>>

\* InstanceModel.setup, for a dataset whose columns all have their Column in
\* _columns: the counter restarts at 1, is raised above the ids of the
\* columns of the dataset, then the virtual columns are added.
Setup ==
    LET nid == MaxIdOf(columns, column_count) + 1
    IN  /\ Len(columns) + VirtualMissing(columns, column_count) <= MaxColumns
        /\ nid + VirtualMissing(columns, column_count) <= MaxColumnId + 1
        /\ columns' = WithVirtualColumns(columns, column_count, nid)
        /\ next_id' = nid + VirtualMissing(columns, column_count)
        /\ UNCHANGED column_count
        /\ ModelStep("setup")

\* The column id is in use (the loops that raise KeyError).
IdExists(id) == \E i \in DOMAIN columns : columns[i] = id

\* InstanceModel.append_column(name, import_name, id); id 0 stands for no
\* id given.  The call that raises KeyError changes nothing and is left out.
AppendColumn(id) ==
    LET nid == IF id # 0 /\ id > next_id THEN id ELSE next_id
        use_id == IF id # 0 THEN id ELSE next_id
    IN  /\ ~(id # 0 /\ id < next_id /\ IdExists(id))
        /\ Len(columns) < MaxColumns
        /\ nid <= MaxColumnId
        /\ columns' = Append(columns, use_id)
        /\ column_count' = column_count + 1
        /\ next_id' = IF use_id = nid THEN nid + 1 ELSE nid
        /\ ModelStep("append_column")

\* InstanceModel.insert_column(index, id), index counted from 0.
InsertColumn(index, id) ==
    LET nid == IF id # 0 THEN id ELSE next_id
    IN  /\ ~(id # 0 /\ id < next_id /\ IdExists(id))
        /\ index <= column_count
        /\ Len(columns) < MaxColumns
        /\ nid <= MaxColumnId
        /\ columns' = SubSeq(columns, 1, index) \o <<nid>>
                         \o SubSeq(columns, index + 1, Len(columns))
        /\ column_count' = column_count + 1
        /\ next_id' = nid + 1
        /\ ModelStep("insert_column")

\* InstanceModel.delete_columns(start, end), both counted from 0 and within
\* the columns of the dataset.
DeleteColumns(start, end) ==
    /\ start <= end
    /\ end < column_count
    /\ columns' = SubSeq(columns, 1, start) \o SubSeq(columns, end + 2, Len(columns))
    /\ column_count' = column_count - (end - start + 1)
    /\ UNCHANGED next_id
    /\ ModelStep("delete_columns")

\* InstanceModel._realise_column(column) for the virtual column at index:
\* the columns up to it become columns of the dataset and keep their ids,
\* then the virtual columns are added.
RealiseColumn(index) ==
    /\ index >= column_count
    /\ index < Len(columns)
    /\ Len(columns) + VirtualMissing(columns, index + 1) <= MaxColumns
    /\ next_id + VirtualMissing(columns, index + 1) <= MaxColumnId + 1
    /\ columns' = WithVirtualColumns(columns, index + 1, next_id)
    /\ column_count' = index + 1
    /\ next_id' = next_id + VirtualMissing(columns, index + 1)
    /\ ModelStep("realise_column")

\* The engine a caller dispatches to, and the item whose owner reconfigures
\* it and asks for operations on it.
Dispatched == {1}
Reconfigured == {"a1"}

\* Dispatch: the pool is started, a caller sends items to an engine, the
\* worker answers, the loop applies the answers.
Next ==
    \/ ManagerStart({})
    \/ \E e \in Dispatched, a \in Analyses, run \in BOOLEAN : started /\ Send(e, a, run)
    \/ \E e \in Dispatched : RunCheck(e)
    \/ \E e \in Dispatched, m \in Messages : RunRecv(e, m)
    \/ \E e \in Dispatched, m \in Messages : Receive(e, m)
    \/ \E a \in Reconfigured : SetOptions(a)
    \/ \E a \in Reconfigured : RequestOp(a)

Spec == Init /\ [][Next]_vars

\* The life of one engine: start (which may fail), dispatch, stop, restart,
\* the exit of its process, its receiver thread and its closing routine.
NextEngine ==
    \/ \E F \in SUBSET Dispatched : ManagerStart(F)
    \/ \E e \in Dispatched : started /\ Stop(e)
    \/ started /\ ManagerStop
    \/ \E e \in Dispatched : started /\ Restart(e)
    \/ \E e \in Dispatched, a \in Reconfigured, run \in BOOLEAN : started /\ Send(e, a, run)
    \/ \E a \in Reconfigured : RequestOp(a)
    \/ \E e \in Dispatched, code \in ExitCodes : ProcessExit(e, code)
    \/ \E e \in Dispatched : RunCheck(e)
    \/ \E e \in Dispatched : RunNotify(e)
    \/ \E e \in Dispatched, m \in Messages : RunRecv(e, m)
    \/ \E e \in Dispatched : RunRecvMalformed(e)
    \/ \E e \in Dispatched : RunRecvError(e)
    \/ \E e \in Dispatched : RunDetectExit(e)
    \/ \E e \in Dispatched, m \in Messages : Receive(e, m)
    \/ \E e \in Dispatched, ok \in BOOLEAN : OnClosing(e, ok)

SpecEngine == Init /\ [][NextEngine]_vars

\* The pool: every engine is started, restart_engines() and restart() are
\* called, the processes that were sent the restart signal exit cleanly,
\* receiver threads and closing routines run.
NextPool ==
    \/ ManagerStart({})
    \/ \E e \in Dispatched : started /\ Send(e, "a1", TRUE)
    \/ \E e \in Dispatched : started /\ Restart(e)
    \/ started /\ RestartEnginesCall
    \/ RestartEnginesRestart
    \/ RestartEnginesPut
    \/ RestartEnginesReturn
    \/ \E e \in Engines : stopping[e] /\ ProcessExit(e, 0)
    \/ \E e \in Engines : RunCheck(e)
    \/ \E e \in Engines : RunNotify(e)
    \/ \E e \in Engines : RunClear(e)
    \/ \E e \in Engines : RunDetectExit(e)
    \/ \E e \in Engines : OnClosing(e, TRUE)

SpecPool == Init /\ [][NextPool]_vars

\* Notification: listeners are registered at any time, an engine is given
\* work of every kind, its worker answers or dies, the loop applies the
\* answers and runs the closing routine.
NextNotify ==
    \/ AddSlotAvailableListener
    \/ AddEngineListener
    \/ \E F \in SUBSET Dispatched : ManagerStart(F)
    \/ \E e \in Dispatched, a \in Reconfigured, run \in BOOLEAN : started /\ Send(e, a, run)
    \/ \E a \in Reconfigured : RequestOp(a)
    \/ \E e \in Dispatched : ProcessExit(e, 1)
    \/ \E e \in Dispatched : RunCheck(e)
    \/ \E e \in Dispatched, m \in Messages : RunRecv(e, m)
    \/ \E e \in Dispatched : RunDetectExit(e)
    \/ \E e \in Dispatched, m \in Messages : Receive(e, m)
    \/ \E e \in Dispatched : OnClosing(e, TRUE)

SpecNotify == Init /\ [][NextNotify]_vars

\* The columns of an InstanceModel: set up, appended, inserted (with an id
\* or without), realised and deleted in any order.
NextColumns ==
    \/ Setup
    \/ \E id \in 0..MaxColumnId : AppendColumn(id)
    \/ \E index \in 0..MaxColumns, id \in 0..MaxColumnId : InsertColumn(index, id)
    \/ \E start \in 0..MaxColumns, end \in 0..MaxColumns : DeleteColumns(start, end)
    \/ \E index \in 0..MaxColumns : RealiseColumn(index)

SpecColumns == Init /\ [][NextColumns]_vars

(***************************************************************************)
(* Properties.  A step of Engine.send or Engine._receive is the step whose *)
(* last'.op says so; the unprimed variables are the state it was taken in. *)
(***************************************************************************)
Busy == {"INITING", "RUNNING", "OPPING"}

\* C1 (as stated): a send on an Engine that is not WAITING is rejected: it
\* leaves the Engine's current item and status unchanged and transmits no
\* request.
C1_BusySendRejected ==
    [][\A e \in Engines :
         (last'.op = "send" /\ last'.e = e /\ status[e] # "WAITING")
         => /\ analysis'[e] = analysis[e]
            /\ status'[e] = status[e]
            /\ last'.tx = <<>>]_vars

\* C1 (amended): send makes no admission check.  A send on an Engine that is
\* not WAITING is accepted like any other: it adds one to the message
\* counter, makes the new item the current item, leaves the Engine busy and
\* transmits, through an open socket, one request for the new item.
C1_BusySendAccepted ==
    [][\A e \in Engines :
         (last'.op = "send" /\ last'.e = e /\ status[e] # "WAITING")
         => /\ message_id'[e] = message_id[e] + 1
            /\ analysis'[e] = last'.a
            /\ last'.a \in Analyses
            /\ status'[e] \in Busy
            /\ socket[e] = "open"
               => /\ Len(last'.tx) = 1
                  /\ last'.tx[1].a = last'.a
                  /\ last'.tx[1].id = message_id'[e]]_vars

\* C1 witness: item a2 was sent to an Engine that was busy, while item a1 is
\* still marked running.
C1_BusySend ==
    /\ last.op = "send"
    /\ last.was # "WAITING"
    /\ last.a = "a2"
    /\ analysis[last.e] = "a2"
    /\ items["a1"].status = "RUNNING"
    /\ Len(last.tx) = 1

\* C2: a response applied to an Engine in INITING or RUNNING that carries a
\* revision other than the live revision of the current item leaves the
\* Engine's status, its current item and every item's status and results
\* unchanged, and fires no slot-available notification.
C2_StaleDrop ==
    [][\A e \in Engines :
         (/\ last'.op = "receive" /\ last'.e = e
          /\ status[e] \in {"INITING", "RUNNING"}
          /\ last'.msg.revision # items[analysis[e]].revision)
         => /\ status' = status
            /\ analysis' = analysis
            /\ items' = items
            /\ last'.slot = 0]_vars

\* C2 witness: a final response of an older revision was applied to a
\* running Engine.
C2_StaleApplied ==
    /\ last.op = "receive"
    /\ last.was = "RUNNING"
    /\ status[last.e] = "RUNNING"
    /\ last.msg.status = "COMPLETE"
    /\ last.msg.revision < items[analysis[last.e]].revision

\* C3: a response of the live revision applied to an Engine in INITING or
\* RUNNING: when its status is IN_PROGRESS its results are set on the item
\* and the Engine keeps its status and current item, with no slot-available
\* notification; otherwise its results and its final status are set on the
\* item, the current item is cleared, the Engine is WAITING and
\* slot-available is fired once.
C3_PartialThenFinal ==
    [][\A e \in Engines :
         (/\ last'.op = "receive" /\ last'.e = e
          /\ status[e] \in {"INITING", "RUNNING"}
          /\ last'.msg.revision = items[analysis[e]].revision)
         => LET a == analysis[e]
                m == last'.msg
            IN  IF m.status = "IN_PROGRESS"
                THEN /\ items'[a].results = [revision |-> m.revision, status |-> m.rstatus]
                     /\ items'[a].status = items[a].status
                     /\ status'[e] = status[e]
                     /\ analysis'[e] = a
                     /\ last'.slot = 0
                ELSE /\ items'[a].results = [revision |-> m.revision, status |-> m.rstatus]
                     /\ items'[a].status = m.rstatus
                     /\ analysis'[e] = None
                     /\ status'[e] = "WAITING"
                     /\ last'.slot = 1]_vars

\* C3 witness: a final response of the live revision was applied to a
\* running Engine: its item has the final status and results, the slot is
\* free.
C3_FinalApplied ==
    /\ last.op = "receive"
    /\ last.was = "RUNNING"
    /\ last.msg.status = "ERROR"
    /\ last.slot = 1
    /\ status[last.e] = "WAITING"
    /\ analysis[last.e] = None
    /\ \E a \in Analyses :
         /\ items[a].status = "ERROR"
         /\ items[a].results = [revision |-> items[a].revision, status |-> "ERROR"]

\* C9: a response applied to an Engine in OPPING resolves the pending
\* operation of the current item once: as failed with the carried cause when
\* the response status is ERROR, as succeeded with the response otherwise;
\* either way the current item is cleared, the Engine is WAITING and
\* slot-available is fired.
C9_OperationOutcome ==
    [][\A e \in Engines :
         (last'.op = "receive" /\ last'.e = e /\ status[e] = "OPPING")
         => LET a == analysis[e]
                m == last'.msg
            IN  /\ items[a].op.outcome = "pending"
                /\ items'[a].op.resolutions = 1
                /\ IF m.status = "ERROR"
                   THEN /\ items'[a].op.outcome = "exception"
                        /\ items'[a].op.cause = m.cause
                   ELSE /\ items'[a].op.outcome = "result"
                        /\ items'[a].op.result = m
                /\ analysis'[e] = None
                /\ status'[e] = "WAITING"
                /\ last'.slot = 1]_vars

\* C9 witness: an ERROR response was applied to an Engine in OPPING and the
\* operation failed with its cause.
C9_OperationFailed ==
    /\ last.op = "receive"
    /\ last.was = "OPPING"
    /\ last.msg.status = "ERROR"
    /\ status[last.e] = "WAITING"
    /\ \E a \in Analyses :
         /\ items[a].op.outcome = "exception"
         /\ items[a].op.cause = last.msg.cause

\* C4: a restart round trip ends with the Engine WAITING: when the receiver
\* thread of the process started by the closing routine clears the
\* restarting flag, the Engine has its channel open, is WAITING and is not
\* stopped.
C4_RestartRoundTrip ==
    [][\A e \in Engines :
         (respawned[e] /\ restarting[e] /\ ~restarting'[e])
         => /\ socket'[e] = "open"
            /\ status'[e] = "WAITING"
            /\ ~stopped'[e]]_vars

\* C5: restart_engines() returns only after every Engine has had a new
\* process started since the call.
C5_BarrierComplete ==
    last.op = "restart_engines_return" => \A e \in Engines : respawned[e]

\* C6: an Engine never reports more restarts to the pool than
\* restart_engines() registered units for it.
C6_ReportsWithinUnits ==
    \A e \in Engines : reports[e] <= units[e]

\* C7: unexpected death is not a restart.  When the closing routine runs for
\* an Engine whose restarting flag is not set, the process of the Engine has
\* exited, and the routine marks the Engine stopped, starts no process and
\* no receiver thread, and emits one engine event of type 'error' whose
\* cause carries the exit code; and no step clears a stopped flag.
C7_UnexpectedDeath ==
    [][\A e \in Engines :
         /\ (last'.op = "closing" /\ last'.e = e /\ ~restarting[e])
            => /\ process[e] = "exited"
               /\ stopped'[e]
               /\ process'[e] = "exited"
               /\ returncode'[e] = returncode[e]
               /\ thread'[e] = thread[e]
               /\ socket'[e] = "closed"
               /\ Len(last'.events) = 1
               /\ last'.events[1].type = "error"
               /\ last'.events[1].cause = "Exit code: " \o ToString(returncode[e])
         /\ stopped[e] => stopped'[e]]_vars

\* C7 witness: the closing routine stopped an Engine whose process exited
\* with code 1 and emitted the event for it.
C7_StoppedByDeath ==
    /\ last.op = "closing"
    /\ stopped[last.e]
    /\ ~restarting[last.e]
    /\ returncode[last.e] = 1
    /\ Len(last.events) = 1
    /\ last.events[1].cause = "Exit code: 1"

\* C8: a stopped Engine is never reused: it is not waiting, and a send to
\* it changes neither its current item nor its status.
C8_StoppedNeverReused ==
    [][\A e \in Engines :
         /\ stopped'[e] => status'[e] # "WAITING"
         /\ (stopped[e] /\ last'.op = "send" /\ last'.e = e)
            => (analysis'[e] = analysis[e] /\ status'[e] = status[e])]_vars

\* C10: bytes that fail to decode are discarded and the receiver loop goes
\* on: after them the receiver thread is still in its loop, or has left it
\* for the closing routine.
C10_DecodeIsolated ==
    last.op = "recv_malformed" => thread[last.e] \in {"loop", "done"}

\* C11: a transport error on receive other than a timeout is handled like
\* the death of the process: once the receiver thread has met it, the
\* closing routine of the Engine has been handed to the owning context (it
\* can only run, to restart or to stop the Engine, if it was handed off).
C11_TransportErrorCloses ==
    last.op = "recv_error"
    => /\ thread[last.e] = "done"
       /\ \E i \in DOMAIN ioloop :
            ioloop[i] = [kind |-> "closing", e |-> last.e, msg |-> NoMessage]

\* C12: a spawn failure is reported, not raised.  When start() cannot create
\* the worker, at the start of the pool or in the closing routine of a
\* restart, the step completes, one engine event of type 'error' carrying
\* the cause is emitted for the Engine, and the Engine is left without a
\* live process, without an open channel and without a new receiver thread
\* (at the start of the pool: with no process, no socket and no thread at
\* all).
C12_SpawnFailureReported ==
    [][/\ last'.op = "start"
          => /\ Len(last'.events) = Cardinality({e \in Engines : process'[e] # "alive"})
             /\ \A i \in DOMAIN last'.events :
                  last'.events[i].type = "error" /\ last'.events[i].cause # ""
             /\ \A e \in Engines :
                  process'[e] # "alive"
                  => process'[e] = "none" /\ socket'[e] = "none" /\ thread'[e] = "none"
       /\ \A e \in Engines :
            (last'.op = "closing" /\ last'.e = e /\ restarting[e] /\ process'[e] # "alive")
            => /\ Len(last'.events) = 1
               /\ last'.events[1].type = "error"
               /\ last'.events[1].cause # ""
               /\ process'[e] = "exited"
               /\ socket'[e] = "closed"
               /\ thread'[e] = thread[e]
               /\ thread[e] \in {"done", "crashed"}]_vars

\* C12 witness: the closing routine of a restart could not spawn the new
\* process: the event was emitted, the socket is closed and no receiver
\* thread runs.
C12_RestartSpawnFailed ==
    /\ last.op = "closing"
    /\ restarting[last.e]
    /\ process[last.e] = "exited"
    /\ socket[last.e] = "closed"
    /\ thread[last.e] = "done"
    /\ Len(last.events) = 1
    /\ last.events[1].message = "Engine process could not be started"

\* The fields of an Engine.
EngineFields(e) ==
    <<status[e], analysis[e], process[e], returncode[e], socket[e], thread[e],
      message_id[e], restarting[e], stopping[e], stopped[e]>>

\* C13: a failure local to one Engine does not reach the others.  The step
\* in which an Engine fails to spawn in its closing routine, or is found
\* dead by it, changes no field of any other Engine; and a pool stop()
\* transmits the restart signal to every Engine that is not stopped and has
\* its channel open, whatever happened to the other Engines.
C13_FailureIsLocal ==
    [][/\ last'.op = "closing"
          => \A e \in Engines \ {last'.e} : EngineFields(e)' = EngineFields(e)
       /\ last'.op = "manager_stop"
          => \A e \in Engines :
               (~stopped[e] /\ socket[e] = "open")
               => \E i \in DOMAIN last'.tx :
                    last'.tx[i].e = e /\ last'.tx[i].kind = "restartEngines"]_vars

\* C14: stop() on an Engine that is already stopped is a no-op: it changes
\* no field of the Engine (nor anything else: the pool, the items, the
\* scheduled callbacks) and transmits no envelope; the stop() of the pool
\* does the same for each of its stopped Engines.
C14_StopWhenStopped ==
    [][/\ \A e \in Engines :
            (last'.op = "stop" /\ last'.e = e /\ stopped[e])
            => /\ engineVars' = engineVars
               /\ poolVars' = poolVars
               /\ items' = items
               /\ ioloop' = ioloop
               /\ last'.tx = <<>>
       /\ last'.op = "manager_stop"
          => \A e \in Engines :
               stopped[e]
               => /\ EngineFields(e)' = EngineFields(e)
                  /\ \A i \in DOMAIN last'.tx : last'.tx[i].e # e]_vars

\* C14 witness: stop() was called on an Engine stopped by the death of its
\* process, which had never been asked to stop: it is still not stopping
\* and its message counter is where the dispatch before the death left it.
C14_StoppedThenStop ==
    /\ last.op = "stop"
    /\ stopped[last.e]
    /\ ~stopping[last.e]
    /\ message_id[last.e] = 1
    /\ last.tx = <<>>

\* The listeners of a kind were called, each once, in registration order.
CalledInOrder(calls, kind) ==
    /\ \A i \in 1..(Len(calls) - 1) : calls[i] < calls[i + 1]
    /\ {calls[i] : i \in DOMAIN calls} = {i \in DOMAIN listeners : listeners[i] = kind}

\* C15: slot-available is fired once in a step that takes an Engine from
\* INITING, RUNNING or OPPING to WAITING, and in no other step.  The
\* notification calls the slot-available listeners, all of them and no
\* other, in registration order; the notification of an engine event calls
\* the engine-event listeners, all of them and no other, in registration
\* order; a step that notifies nothing calls no listener.
C15_SlotAvailableOnce ==
    [][/\ last'.slot = IF \E e \in Engines : status[e] \in Busy /\ status'[e] = "WAITING"
                       THEN 1 ELSE 0
       /\ last'.slot = 1 => CalledInOrder(last'.calls, "slot-available")
       /\ Len(last'.events) = 1 => CalledInOrder(last'.calls, "engine-event")
       /\ Len(last'.events) <= 1
       /\ (last'.slot = 0 /\ last'.events = <<>>) => last'.calls = <<>>]_vars

\* C15 witness: with an engine-event listener registered first and a
\* slot-available listener second, a final response freed an Engine that
\* was INITING, and the second listener alone was called.
C15_SecondListenerCalled ==
    /\ last.op = "receive"
    /\ last.was = "INITING"
    /\ status[last.e] = "WAITING"
    /\ last.slot = 1
    /\ listeners = <<"engine-event", "slot-available">>
    /\ last.calls = <<2>>

\* C16: a send(item, run) on a WAITING Engine makes the item the current
\* item.  When the item is complete and has a pending operation, the Engine
\* is OPPING, the item keeps its status and the waiting flag of the
\* operation is cleared; otherwise the item is running, and the Engine is
\* RUNNING when run is true and INITING when run is false.
C16_DispatchTransitions ==
    [][\A e \in Engines :
         (last'.op = "send" /\ last'.e = e /\ status[e] = "WAITING")
         => LET a == last'.a
            IN  /\ a \in Analyses
                /\ analysis'[e] = a
                /\ IF /\ items[a].status = "COMPLETE"
                      /\ items[a].op.exists /\ items[a].op.waiting
                   THEN /\ status'[e] = "OPPING"
                        /\ items'[a].status = "COMPLETE"
                        /\ ~items'[a].op.waiting
                        /\ items'[a].op.outcome = "pending"
                   ELSE /\ items'[a].status = "RUNNING"
                        /\ items'[a].op = items[a].op
                        /\ status'[e] = IF last'.run THEN "RUNNING" ELSE "INITING"]_vars

\* C16 witness: a complete item with a pending operation was sent to a
\* WAITING Engine, which is now OPPING.
C16_OperationDispatched ==
    /\ last.op = "send"
    /\ last.was = "WAITING"
    /\ last.a \in Analyses
    /\ status[last.e] = "OPPING"
    /\ analysis[last.e] = last.a
    /\ items[last.a].status = "COMPLETE"
    /\ items[last.a].op.exists
    /\ ~items[last.a].op.waiting

\* The steps taken by a receiver thread (Engine._run).
ThreadOps ==
    {"run_check", "run_notify", "run_clear", "recv", "recv_malformed",
     "recv_error", "detect_exit"}

\* C17: a step of a receiver thread changes no flag of an Engine, no status,
\* no current item and not the barrier counter of the pool: all it does to
\* shared state is to append callbacks to those scheduled on the loop.
C17_ThreadMutatesNothing ==
    [][last'.op \in ThreadOps
       => /\ restarting' = restarting
          /\ stopping' = stopping
          /\ stopped' = stopped
          /\ status' = status
          /\ analysis' = analysis
          /\ restart_task' = restart_task
          /\ Len(ioloop') >= Len(ioloop)
          /\ SubSeq(ioloop', 1, Len(ioloop)) = ioloop]_vars

\* The callbacks scheduled for an Engine, in the order of the loop.
Scheduled(loop, e) == SelectSeq(loop, LAMBDA c : c.e = e)

C19_WaitingIgnores ==
    [][\A e \in Engines :
         (last'.op = "receive" /\ last'.e = e /\ status[e] = "WAITING")
         => /\ status' = status
            /\ analysis' = analysis
            /\ items' = items
            /\ last'.slot = 0
            /\ last'.events = <<>>
            /\ last'.calls = <<>>]_vars

\* C19 witness: a failed response of the live revision reached an Engine in
\* WAITING after item a1 was completed: a1 is still complete and the Engine
\* is still WAITING.
C19_LateResponse ==
    /\ last.op = "receive"
    /\ last.was = "WAITING"
    /\ status[last.e] = "WAITING"
    /\ last.msg.status = "ERROR"
    /\ last.msg.revision = items["a1"].revision
    /\ items["a1"].status = "COMPLETE"
    /\ items["a1"].results.status = "COMPLETE"

\* C20: when the closing routine finds the process of an Engine dead, not
\* restarting, while the Engine is OPPING, it leaves the Engine OPPING with
\* its current item and the operation of that item pending; and from then
\* on no step resolves the operation, and the Engine stays OPPING with that
\* item through every step other than a new send to it.
C20_OperationLeftPending ==
    [][\A e \in Engines :
         /\ (last'.op = "closing" /\ last'.e = e /\ ~restarting[e] /\ status[e] = "OPPING")
            => /\ analysis[e] # None
               /\ items[analysis[e]].op.outcome = "pending"
               /\ items[analysis[e]].op.resolutions = 0
               /\ items' = items
               /\ status'[e] = "OPPING"
               /\ analysis'[e] = analysis[e]
         /\ (stopped[e] /\ status[e] = "OPPING")
            => /\ items'[analysis[e]].op.outcome = "pending"
               /\ items'[analysis[e]].op.resolutions = 0
               /\ last'.op # "send"
                  => status'[e] = "OPPING" /\ analysis'[e] = analysis[e]]_vars

\* C20 witness: the closing routine stopped an Engine that was OPPING: it
\* is still OPPING and the operation of its item is still pending.
C20_DiedWhileOpping ==
    /\ last.op = "closing"
    /\ last.was = "OPPING"
    /\ stopped[last.e]
    /\ status[last.e] = "OPPING"
    /\ analysis[last.e] # None
    /\ items[analysis[last.e]].op.outcome = "pending"

\* C21: the envelope ids of one Engine are strictly increasing and start at
\* 1.  The message counter starts at 0 and never goes down, not even when
\* the Engine is restarted; every send() and every stop() of an Engine that
\* is not stopped adds exactly one to it, and the envelope the step
\* transmits carries the counter after the increment, which is greater
\* than every id transmitted before.
C21_MessageIdsIncrease ==
    [][/\ \A e \in Engines :
            /\ message_id[e] >= 0
            /\ message_id'[e] \in {message_id[e], message_id[e] + 1}
            /\ (last'.op = "send" /\ last'.e = e) => message_id'[e] = message_id[e] + 1
            /\ (last'.op \in {"stop", "restart"} /\ last'.e = e)
               => message_id'[e] = IF stopped[e] THEN message_id[e] ELSE message_id[e] + 1
            /\ (last'.op = "closing" /\ last'.e = e) => message_id'[e] = message_id[e]
       /\ \A i \in DOMAIN last'.tx :
            /\ last'.tx[i].id = message_id[last'.tx[i].e] + 1
            /\ last'.tx[i].id = message_id'[last'.tx[i].e]
            /\ last'.tx[i].id >= 1
       /\ \A i, j \in DOMAIN last'.tx : i # j => last'.tx[i].e # last'.tx[j].e]_vars

\* C21 witness: an Engine that was restarted (restart signal with id 1, new
\* process) transmitted the request of a send with id 2.
C21_IdAfterRestart ==
    /\ last.op = "send"
    /\ respawned[last.e]
    /\ process[last.e] = "alive"
    /\ Len(last.tx) = 1
    /\ last.tx[1].id = 2
    /\ message_id[last.e] = 2

\* What the pool can do by itself once restart_engines() has been called: a
\* worker that was sent the restart signal exits, a receiver thread takes a
\* step, the loop runs a closing routine (whose respawn succeeds), the
\* join returns.
PoolProgress ==
    \/ RestartEnginesReturn
    \/ \E e \in Engines : stopping[e] /\ ProcessExit(e, 0)
    \/ \E e \in Engines : RunCheck(e)
    \/ \E e \in Engines : RunNotify(e)
    \/ \E e \in Engines : RunClear(e)
    \/ \E e \in Engines : RunDetectExit(e)
    \/ \E e \in Engines : OnClosing(e, TRUE)

\* C22: restart_engines() eventually returns.  While it waits in join(),
\* the pool can still take a step towards the return: it is never left
\* waiting with every signalled worker gone, every receiver thread at rest
\* and no callback to run, which is a wait that never ends.
C22_JoinCanProceed ==
    re_pc = "join" => ENABLED PoolProgress

\* C23: in every reachable state an Engine is WAITING if and only if it has
\* no current item.
C23_WaitingIffNoItem ==
    \A e \in Engines : (status[e] = "WAITING") <=> (analysis[e] = None)

\* C23 witness: an Engine that was INITING with an item has applied the
\* final response for it: it is WAITING and has no current item.
C23_FreedAfterInit ==
    /\ last.op = "receive"
    /\ last.was = "INITING"
    /\ last.msg.status = "COMPLETE"
    /\ last.slot = 1
    /\ status[last.e] = "WAITING"
    /\ analysis[last.e] = None

\* C24: the columns of an InstanceModel have pairwise distinct ids, and the
\* next-id counter is greater than the id of every column.
C24_ColumnIdsDistinct ==
    /\ \A i, j \in DOMAIN columns : i # j => columns[i] # columns[j]
    /\ \A i \in DOMAIN columns : columns[i] < next_id

====
